---------------------------- MODULE Spec2Model ----------------------------
(***************************************************************************)
(* RawTable2 / RawMap (src/src/raw/map.rs): a type-erased <K, V> hash map   *)
(* on top of the Swiss-table core RawTableInner.                            *)
(*                                                                          *)
(* The operations of map.rs are translated from the source.  RawTableInner  *)
(* (control bytes, probing, erase, clear, growth) lives in raw/mod.rs, which*)
(* is not among the source files; it is modelled from the specification's   *)
(* description of the ControlPlane (spec.md section 4.2) with the usual     *)
(* Swiss-table layout: `buckets` control bytes followed by GROUP_WIDTH      *)
(* trailing bytes that mirror the first group.                              *)
(*                                                                          *)
(* Pointers are modelled by the slot index they address: bucket(i) is i,    *)
(* and the value address of bucket i (ptr.add(voff)) is i as well.  A u64   *)
(* hash is modelled by the two bit fields the table reads: h1 (the low bits *)
(* that select the probe start) and h2 (the top 7 bits, the control tag).   *)
(***************************************************************************)
EXTENDS Integers, Sequences, FiniteSets, TLC

VARIABLES
    W,        \* Group::WIDTH of the build (4, 8 or 16 control bytes per group)
    debug,    \* cfg(debug_assertions) of the build: TRUE when the
              \* debug_assert!s of the table core are compiled in
    tbl,      \* tbl[t]: the RawTable2 with id t (its RawTableInner and bucket bytes)
    ref,      \* history: ref[t][k] is the value last inserted for k and not since
              \* deleted or cleared (0: none)
    last,     \* the last call: the operation, its table, how it ended, whether
              \* it hit entries present before it, whether it had to grow the table
    nops,     \* calls made on table 2 so far (bounded)
    probe     \* a probe sequence under way: the bucket mask it runs on, its
              \* position and stride, and the positions visited so far

vars == <<W, debug, tbl, ref, last, nops, probe>>

-----------------------------------------------------------------------------
(* Bounds of the model *)

NumKeys == 4        \* keys of the single-table specification Spec
NumKeysExt == 3     \* keys of the two-table specification SpecExt
NumKeysIns == 8     \* keys of the insert-only specification SpecIns
NumKeysProbe == 5   \* keys of the long-probe specification SpecProbe
NumKeysGrow == 4    \* keys of the extend-with-growth specification SpecGrow
NumKeysRaw == 3     \* keys of the raw-table specification SpecRaw
NumKeysTomb == 7    \* keys of the tombstone specification SpecTomb
MaxSeqCap == 56     \* largest capacity passed to new in SpecSeq (64 buckets)
MaxSeqHash == 70    \* largest hash a probe sequence of SpecSeq starts from
MaxProbeLen == 18   \* longest probe sequence SpecSeq follows in a release build
NumVals == 2
MaxNewCap == 4      \* largest capacity passed to new
MaxOtherOps == 2    \* calls made on table 2, the `other` of extend

Keys == 1..NumKeys
KeysExt == 1..NumKeysExt
KeysIns == 1..NumKeysIns
KeysProbe == 1..NumKeysProbe
KeysGrow == 1..NumKeysGrow
KeysTomb == 1..NumKeysTomb
KeysRaw == 1..NumKeysRaw
AllKeys == Keys \cup KeysExt \cup KeysIns \cup KeysProbe \cup KeysGrow
Vals == 1..NumVals
\* SpecIns maps key k to ValIns(k): values are never keys
ValIns(k) == NumKeysIns + k
AllVals == Vals \cup {ValIns(k) : k \in KeysIns}
TableIds == {1, 2}

\* Group::WIDTH depends on the build: 16 with SSE2, 8 or 4 with the generic
\* implementation
Widths == {4, 16}

-----------------------------------------------------------------------------
(* Option<T>: None is the empty sequence, Some(x) the one-element sequence *)

None == <<>>
Some(x) == <<x>>
IsSome(o) == Len(o) = 1
Unwrap(o) == o[1]

Min(S) == CHOOSE x \in S : \A y \in S : x <= y
Max(S) == CHOOSE x \in S : \A y \in S : x >= y

\* `let x = e; F(x)`: e is evaluated once and F is applied to its value
Once(e, F(_)) == CHOOSE y \in {F(x) : x \in {e}} : TRUE

-----------------------------------------------------------------------------
(* EntrySpec: the caller's hash of a key.  Keys 2..5 share the probe start  *)
(* 6 (so they collide and wrap around the end of a small table), the later  *)
(* keys start at 9, 11, 13, ..; keys 2k and 2k+1 share the 7-bit tag (so    *)
(* only `equals` tells them apart when they meet in a group).               *)

HashH1(k) == IF k = 1 THEN 0 ELSE IF k <= 5 THEN 6 ELSE 2 * k - 3
HashH2(k) == 40 + (k \div 2)
hash(k) == [h1 |-> HashH1(k), h2 |-> HashH2(k)]
equals(k1, k2) == k1 = k2

-----------------------------------------------------------------------------
(* Control bytes *)

EMPTY == 255
DELETED == 128
IsFull(c) == c < 128
SpecialIsEmpty(c) == c % 2 = 1

\* Bytes of a bucket that was never written
Uninit == [k |-> 0, v |-> 0]

\* The (K, V) byte patterns a bucket can hold
Entries == [k : {0} \cup AllKeys, v : {0} \cup AllVals]

Buckets(t) == t.mask + 1
IsEmptySingleton(t) == t.mask = 0

\* x & bucket_mask, for x that may have wrapped below zero
Masked(t, x) == (x + W * Buckets(t)) % Buckets(t)

(* Group::load(ctrl(pos)): the W control bytes from pos on *)
GroupLoad(t, pos) == [j \in 0..(W - 1) |-> t.ctrl[pos + j]]
MatchByte(g, b) == {j \in DOMAIN g : g[j] = b}
MatchEmpty(g) == {j \in DOMAIN g : g[j] = EMPTY}
MatchEmptyOrDeleted(g) == {j \in DOMAIN g : g[j] >= 128}
MatchFull(g) == {j \in DOMAIN g : g[j] < 128}
AnyBitSet(m) == m # {}
TrailingZeros(m) == IF m = {} THEN W ELSE Min(m)
LeadingZeros(m) == IF m = {} THEN W ELSE W - 1 - Max(m)

CapacityToBuckets(cap) ==
    IF cap < 8 THEN (IF cap < 4 THEN 4 ELSE 8)
    ELSE LET adjusted == (cap * 8) \div 7
             p == CHOOSE q \in {8, 16, 32, 64, 128} : q >= adjusted /\ q \div 2 < adjusted
         IN p

BucketMaskToCapacity(mask) ==
    IF mask < 8 THEN mask ELSE ((mask + 1) \div 8) * 7

(* RawTableInner::NEW: the shared empty singleton, no allocation *)
NewSingleton ==
    [mask |-> 0,
     ctrl |-> [i \in 0..(W - 1) |-> EMPTY],
     data |-> [i \in 0..0 |-> Uninit],
     items |-> 0,
     growth_left |-> 0]

(* A freshly allocated table of `buckets` slots, every control byte EMPTY *)
NewWithBuckets(buckets) ==
    [mask |-> buckets - 1,
     ctrl |-> [i \in 0..(buckets + W - 1) |-> EMPTY],
     data |-> [i \in 0..(buckets - 1) |-> Uninit],
     items |-> 0,
     growth_left |-> BucketMaskToCapacity(buckets - 1)]

(* RawTableInner::fallible_with_capacity: Err when the allocator refuses *)
FallibleWithCapacity(cap, allocOk) ==
    IF cap = 0 THEN [ok |-> TRUE, t |-> NewSingleton]
    ELSE IF allocOk THEN [ok |-> TRUE, t |-> NewWithBuckets(CapacityToBuckets(cap))]
    ELSE [ok |-> FALSE, t |-> NewSingleton]

(* set_ctrl: writes the byte and its mirror in the trailing group *)
SetCtrl(t, index, c) ==
    LET index2 == Masked(t, index - W) + W
    IN [t EXCEPT !.ctrl = [i \in DOMAIN t.ctrl |->
            IF i = index \/ i = index2 THEN c ELSE t.ctrl[i]]]


-----------------------------------------------------------------------------
(* Probing.  A probe sequence starts at h1 & bucket_mask with stride 0;     *)
(* move_next adds W to the stride and the stride to the position.  When     *)
(* move_next is called with a stride past bucket_mask, every group has been *)
(* loaded (the last one twice) and none ended the probe: a debug build      *)
(* panics there ("Went past end of probe sequence"); a release build moves  *)
(* on over the same groups and its loop does not end.                       *)

Diverges == <<0 - 1>>
PastEnd == <<0 - 2>>
\* What a probe that went past its end yields instead of a result
NoResult == IF debug THEN PastEnd ELSE Diverges

(* ProbeSeq::move_next: the stride grows by a group, the position by the    *)
(* stride, masked into the table                                            *)
\* Mutant: the stride grows by two groups
NextStride_two_groups(stride) == stride + 2 * W

NextStride(stride) == stride + W
NextPos(mask, pos, stride) == (pos + NextStride(stride)) % (mask + 1)

\* The first `bit` of the tag matches whose bucket holds an equal key
EqMatches(t, g, pos, h, key) ==
    {bit \in MatchByte(g, h.h2) : equals(key, t.data[Masked(t, pos + bit)].k)}

RECURSIVE FindInnerFrom(_, _, _, _, _)
FindInnerFrom(t, h, key, pos, stride) ==
    LET g == GroupLoad(t, pos)
        hits == EqMatches(t, g, pos, h, key)
    IN IF hits # {} THEN Some(Masked(t, pos + Min(hits)))
       ELSE IF AnyBitSet(MatchEmpty(g)) THEN None
       ELSE IF stride > t.mask THEN NoResult
       ELSE FindInnerFrom(t, h, key, NextPos(t.mask, pos, stride), NextStride(stride))

(* RawTableInner::find_inner(hash, eq) *)
FindInner(t, h, key) == FindInnerFrom(t, h, key, Masked(t, h.h1), 0)

(* find_insert_slot_in_group *)
FindInsertSlotInGroup(t, g, pos) ==
    LET m == MatchEmptyOrDeleted(g)
    IN IF m # {} THEN Some(Masked(t, pos + Min(m))) ELSE None

(* fix_insert_slot: in a table smaller than a group the masked index may    *)
(* be a full bucket; the slot is then taken from the group at index 0       *)
FixInsertSlot(t, index) ==
    IF IsFull(t.ctrl[index])
    THEN Min(MatchEmptyOrDeleted(GroupLoad(t, 0)))
    ELSE index

RECURSIVE FindOrFindInsertSlotFrom(_, _, _, _, _, _)
FindOrFindInsertSlotFrom(t, h, key, pos, stride, slot) ==
    LET g == GroupLoad(t, pos)
        hits == EqMatches(t, g, pos, h, key)
        slot2 == IF slot = None THEN FindInsertSlotInGroup(t, g, pos) ELSE slot
    IN IF hits # {} THEN [found |-> TRUE, index |-> Masked(t, pos + Min(hits))]
       ELSE IF AnyBitSet(MatchEmpty(g))
            THEN [found |-> FALSE, index |-> FixInsertSlot(t, Unwrap(slot2))]
       ELSE IF stride > t.mask THEN [found |-> FALSE, index |-> NoResult[1]]
       ELSE FindOrFindInsertSlotFrom(t, h, key, NextPos(t.mask, pos, stride),
                                     NextStride(stride), slot2)

(* RawTableInner::find_or_find_insert_slot_inner(hash, eq): Ok(index) is    *)
(* found = TRUE, Err(InsertSlot {index}) is found = FALSE                   *)
FindOrFindInsertSlotInner(t, h, key) ==
    FindOrFindInsertSlotFrom(t, h, key, Masked(t, h.h1), 0, None)

RECURSIVE FindInsertSlotFrom(_, _, _)
FindInsertSlotFrom(t, pos, stride) ==
    LET g == GroupLoad(t, pos)
        s == FindInsertSlotInGroup(t, g, pos)
    IN IF s # None THEN FixInsertSlot(t, Unwrap(s))
       ELSE IF stride > t.mask THEN NoResult[1]
       ELSE FindInsertSlotFrom(t, NextPos(t.mask, pos, stride), NextStride(stride))

(* RawTableInner::find_insert_slot(hash): no equality test *)
FindInsertSlot(t, h) == FindInsertSlotFrom(t, Masked(t, h.h1), 0)

(* set_ctrl_h2 *)
SetCtrlH2(t, index, h) == SetCtrl(t, index, h.h2)

(* record_item_insert_at(index, old_ctrl, hash) *)
RecordItemInsertAt(t, index, old_ctrl, h) ==
    LET t1 == [t EXCEPT !.growth_left =
                   t.growth_left - (IF SpecialIsEmpty(old_ctrl) THEN 1 ELSE 0)]
        t2 == SetCtrlH2(t1, index, h)
    IN [t2 EXCEPT !.items = t2.items + 1]

(* erase(index): a tombstone when the slot lies in a run of at least W      *)
(* non-EMPTY bytes (a probe may have passed it), EMPTY otherwise            *)
Erase(t, index) ==
    LET index_before == Masked(t, index - W)
        empty_before == MatchEmpty(GroupLoad(t, index_before))
        empty_after == MatchEmpty(GroupLoad(t, index))
        tomb == LeadingZeros(empty_before) + TrailingZeros(empty_after) >= W
        t1 == IF tomb THEN t ELSE [t EXCEPT !.growth_left = t.growth_left + 1]
        t2 == SetCtrl(t1, index, IF tomb THEN DELETED ELSE EMPTY)
    IN [t2 EXCEPT !.items = t2.items - 1]

(* clear_no_drop: bucket bytes are left as they are *)
ClearNoDrop(t) ==
    [t EXCEPT !.ctrl = IF IsEmptySingleton(t) THEN t.ctrl
                       ELSE [i \in DOMAIN t.ctrl |-> EMPTY],
              !.items = 0,
              !.growth_left = BucketMaskToCapacity(t.mask)]

(* full_buckets_indices: the first `items` FULL control bytes, scanning the *)
(* groups upwards from index 0, as an ascending sequence                    *)
RECURSIVE FullFrom(_, _, _)
FullFrom(t, i, n) ==
    IF n = 0 \/ i >= Buckets(t) THEN <<>>
    ELSE IF IsFull(t.ctrl[i]) THEN <<i>> \o FullFrom(t, i + 1, n - 1)
    ELSE FullFrom(t, i + 1, n)

FullBucketsIndices(t) == FullFrom(t, 0, t.items)


-----------------------------------------------------------------------------
(* Growth *)

(* prepare_insert_slot during a resize: no equality test, the keys of the   *)
(* old table are distinct                                                   *)
RECURSIVE ResizeMove(_, _, _, _)
ResizeMove(old, new, idxs, hasher) ==
    IF idxs = <<>> THEN new
    ELSE LET i == Head(idxs)
             h == hasher[old.data[i]]
             n2 == Once(FindInsertSlot(new, h), LAMBDA new_index :
                      [SetCtrlH2(new, new_index, h) EXCEPT !.data[new_index] = old.data[i]])
         IN Once(n2, LAMBDA n : ResizeMove(old, n, Tail(idxs), hasher))

(* resize_inner(capacity): allocate the new table first (the only step that *)
(* can fail), move every FULL bucket into it, then swap it in               *)
ResizeInner(t, capacity, hasher, allocOk) ==
    Once(FallibleWithCapacity(capacity, allocOk), LAMBDA r :
       IF ~r.ok THEN [ok |-> FALSE, t |-> t]
       ELSE Once(ResizeMove(t, r.t, FullBucketsIndices(t), hasher), LAMBDA moved :
               [ok |-> TRUE,
                t |-> [moved EXCEPT !.growth_left = moved.growth_left - t.items,
                                    !.items = t.items]]))

(* prepare_rehash_in_place: FULL becomes DELETED, DELETED becomes EMPTY,    *)
(* then the trailing bytes are copied from the first ones                   *)
PrepareRehashInPlace(t) ==
    LET conv(c) == IF IsFull(c) THEN DELETED ELSE EMPTY
        b == Buckets(t)
        c1 == [i \in DOMAIN t.ctrl |-> IF i < b \/ i < W THEN conv(t.ctrl[i]) ELSE t.ctrl[i]]
        c2 == [i \in DOMAIN t.ctrl |->
                 IF b < W
                 THEN (IF i >= W /\ i < W + b THEN c1[i - W] ELSE c1[i])
                 ELSE (IF i >= b THEN c1[i - b] ELSE c1[i])]
    IN [t EXCEPT !.ctrl = c2]

(* is_in_same_group(i, new_i, hash) *)
IsInSameGroup(t, i, new_i, h) ==
    LET probe_seq_pos == Masked(t, h.h1)
        probe_index(pos) == Masked(t, pos - probe_seq_pos) \div W
    IN probe_index(i) = probe_index(new_i)

(* The 'inner loop of rehash_in_place for the bucket at i, whose control    *)
(* byte is DELETED (an entry still to be placed)                            *)
RECURSIVE RehashInner(_, _, _)
RehashInner(t, i, hasher) ==
    LET h == hasher[t.data[i]]
    IN Once(FindInsertSlot(t, h), LAMBDA new_i :
         IF IsInSameGroup(t, i, new_i, h) THEN SetCtrlH2(t, i, h)
         ELSE LET prev_ctrl == t.ctrl[new_i]
              IN Once(SetCtrlH2(t, new_i, h), LAMBDA t1 :
                   IF prev_ctrl = EMPTY
                   THEN [SetCtrl(t1, i, EMPTY) EXCEPT !.data[new_i] = t.data[i]]
                   ELSE Once([t1 EXCEPT !.data[new_i] = t.data[i],
                                        !.data[i] = t.data[new_i]],
                             LAMBDA t2 : RehashInner(t2, i, hasher))))

RECURSIVE RehashOuter(_, _, _)
RehashOuter(t, i, hasher) ==
    IF i >= Buckets(t) THEN t
    ELSE IF t.ctrl[i] # DELETED THEN RehashOuter(t, i + 1, hasher)
    ELSE Once(RehashInner(t, i, hasher), LAMBDA t1 : RehashOuter(t1, i + 1, hasher))

(* rehash_in_place: drops the tombstones without allocating *)
RehashInPlace(t, hasher) ==
    Once(PrepareRehashInPlace(t), LAMBDA t0 :
       Once(RehashOuter(t0, 0, hasher), LAMBDA t1 :
          [t1 EXCEPT !.growth_left = BucketMaskToCapacity(t1.mask) - t1.items]))

(* reserve_rehash_inner(additional, hasher, fallibility): hasher maps the   *)
(* bytes of a bucket to the hash of its key                                 *)
ReserveRehashInner(t, additional, hasher, allocOk) ==
    LET new_items == t.items + additional
        full_capacity == BucketMaskToCapacity(t.mask)
    IN IF new_items <= full_capacity \div 2
       THEN [ok |-> TRUE, t |-> RehashInPlace(t, hasher)]
       ELSE ResizeInner(t, Max({new_items, full_capacity + 1}), hasher, allocOk)


-----------------------------------------------------------------------------
(* RawTable2 (map.rs) *)

\* The call panicked on a debug assertion of the table core
PanicAddr == 0 - 1
Panicked == <<<<PanicAddr>>>>

(* bucket(index): the address of bucket `index`, modelled by the index.     *)
(* bucket_ptr asserts, in a debug build, that the table is not the empty    *)
(* singleton and that index < buckets; a release build computes the         *)
(* address whatever the index (for an index that is no bucket, a dangling   *)
(* address)                                                                 *)
bucket(t, index) ==
    IF debug /\ (t.mask = 0 \/ index >= Buckets(t)) THEN PanicAddr ELSE index

(* find(key) *)
find(t, key) == FindInner(t, hash(key), key)

\* Mutant: the insertion is recorded as if the slot had been EMPTY, the
\* control byte it held is not read
find_or_insert_counts_always(t, key) ==
    LET h == hash(key)
    IN Once(FindOrFindInsertSlotInner(t, h, key), LAMBDA r :
         IF r.found THEN [t |-> t, index |-> r.index]
         ELSE Once(RecordItemInsertAt(t, r.index, EMPTY, h), LAMBDA t1 :
                [t |-> [t1 EXCEPT !.data[bucket(t1, r.index)].k = key],
                 index |-> r.index]))

\* Mutant: the slot is searched without the equality test, as for a key
\* known to be absent
find_or_insert_no_eq(t, key) ==
    LET h == hash(key)
    IN Once(FindInsertSlot(t, h), LAMBDA index :
         Once(RecordItemInsertAt(t, index, t.ctrl[index], h), LAMBDA t1 :
            [t |-> [t1 EXCEPT !.data[bucket(t1, index)].k = key],
             index |-> index]))

\* Mutant: the insertion is recorded without taking from growth_left
find_or_insert_free(t, key) ==
    LET h == hash(key)
    IN Once(FindOrFindInsertSlotInner(t, h, key), LAMBDA r :
         IF r.found THEN [t |-> t, index |-> r.index]
         ELSE LET old_ctrl == t.ctrl[r.index]
              IN Once(RecordItemInsertAt(t, r.index, old_ctrl, h), LAMBDA t1 :
                   [t |-> [t1 EXCEPT !.data[bucket(t1, r.index)].k = key,
                                     !.growth_left = t.growth_left],
                    index |-> r.index]))

(* find_or_insert(key): the index of the key's bucket; a new key is         *)
(* recorded in the insert slot and its key bytes are written                *)
find_or_insert(t, key) ==
    LET h == hash(key)
    IN Once(FindOrFindInsertSlotInner(t, h, key), LAMBDA r :
         IF r.found THEN [t |-> t, index |-> r.index]
         ELSE LET old_ctrl == t.ctrl[r.index]
              IN Once(RecordItemInsertAt(t, r.index, old_ctrl, h), LAMBDA t1 :
                   [t |-> [t1 EXCEPT !.data[bucket(t1, r.index)].k = key],
                    index |-> r.index]))

\* Mutant: a growth that fails has already reset the control bytes
do_growth_not_atomic(t, additional, allocOk) ==
    Once(ReserveRehashInner(t, additional, [e \in Entries |-> hash(e.k)], allocOk),
         LAMBDA r : IF r.ok THEN r ELSE [ok |-> FALSE, t |-> ClearNoDrop(t)])

\* Mutant: the hasher reads the bucket at the value offset, hashing the value
do_growth_hash_value(t, additional, allocOk) ==
    ReserveRehashInner(t, additional, [e \in Entries |-> hash(e.v)], allocOk)

(* do_growth(additional, Fallible): the hasher handed to the table core     *)
(* hashes the key bytes at the start of the bucket                          *)
do_growth(t, additional, allocOk) ==
    ReserveRehashInner(t, additional, [e \in Entries |-> hash(e.k)], allocOk)

\* Mutant: the table grows only once no headroom is left at all, whatever
\* the number of insertions that will follow
check_growth_when_zero(t, additional, allocOk) ==
    IF additional > 0 /\ t.growth_left = 0
    THEN do_growth(t, additional, allocOk)
    ELSE [ok |-> TRUE, t |-> t]

(* check_growth(additional) *)
check_growth(t, additional, allocOk) ==
    IF additional > t.growth_left
    THEN do_growth(t, additional, allocOk)
    ELSE [ok |-> TRUE, t |-> t]

(* access(key): the value address of the key's bucket, or None *)
access(t, key) ==
    LET o == find(t, key)
    IN IF IsSome(o) THEN Some(bucket(t, Unwrap(o))) ELSE None

(* assign(key): grows when needed, then returns the value address of the    *)
(* key's bucket.  `expect` turns a failed growth into a panic.              *)
assign(t, key, allocOk) ==
    Once(check_growth(t, 1, allocOk), LAMBDA g :
       IF ~g.ok THEN [res |-> "Panic", t |-> g.t, ptr |-> None]
       ELSE Once(find_or_insert(g.t, key), LAMBDA r :
               [res |-> "Ok", t |-> r.t, ptr |-> Some(bucket(r.t, r.index))]))

\* Mutant: the value is copied only into a bucket that extend has just
\* created, a key already present keeps its old value
RECURSIVE ExtendLoop_no_overwrite(_, _, _)
ExtendLoop_no_overwrite(t, other, idxs) ==
    IF idxs = <<>> THEN t
    ELSE LET other_idx == Head(idxs)
             other_bucket == other.data[bucket(other, other_idx)]
         IN Once(find_or_insert(t, other_bucket.k), LAMBDA r :
              Once(IF r.t.items = t.items THEN r.t
                   ELSE [r.t EXCEPT !.data[bucket(r.t, r.index)].v = other_bucket.v],
                   LAMBDA t2 : ExtendLoop_no_overwrite(t2, other, Tail(idxs))))

(* The loop of extend over other's full buckets *)
RECURSIVE ExtendLoop(_, _, _)
ExtendLoop(t, other, idxs) ==
    IF idxs = <<>> THEN t
    ELSE LET other_idx == Head(idxs)
             other_bucket == other.data[bucket(other, other_idx)]
         IN Once(find_or_insert(t, other_bucket.k), LAMBDA r :
              Once([r.t EXCEPT !.data[bucket(r.t, r.index)].v = other_bucket.v],
                   LAMBDA t2 : ExtendLoop(t2, other, Tail(idxs))))

(* len() *)
len(t) == t.items

(* extend(other) *)
extend(t, other, allocOk) ==
    Once(check_growth(t, len(other), allocOk), LAMBDA g :
       IF ~g.ok THEN [res |-> "Panic", t |-> g.t]
       ELSE [res |-> "Ok", t |-> ExtendLoop(g.t, other, FullBucketsIndices(other))])

\* Mutant: the bucket is erased but the entry count is left as it was
delete_keeps_count(t, key) ==
    LET o == find(t, key)
    IN IF IsSome(o) THEN [Erase(t, Unwrap(o)) EXCEPT !.items = t.items] ELSE t

\* Mutant: the control byte of the key's bucket is set to EMPTY whatever
\* its neighbours are, without asking erase for a tombstone
delete_mark_empty(t, key) ==
    LET o == find(t, key)
    IN IF IsSome(o)
       THEN [SetCtrl(t, Unwrap(o), EMPTY) EXCEPT !.items = t.items - 1,
                                                 !.growth_left = t.growth_left + 1]
       ELSE t

\* Mutant: erases the first bucket that carries the key's tag, whatever key
\* it holds
delete_first_tag(t, key) ==
    LET o == find(t, key)
        tagged == {i \in 0..t.mask : t.ctrl[i] = hash(key).h2}
    IN IF IsSome(o) THEN Erase(t, Min(tagged)) ELSE t

\* Mutant: erases the bucket at the key's probe start, not the bucket found
delete_at_probe_start(t, key) ==
    LET o == find(t, key)
    IN IF IsSome(o) THEN Erase(t, Masked(t, hash(key).h1)) ELSE t

(* delete(key) *)
delete(t, key) ==
    LET o == find(t, key)
    IN IF IsSome(o) THEN Erase(t, Unwrap(o)) ELSE t

\* Mutant: clear releases the allocation and goes back to the empty singleton
clear_release(t) == NewSingleton

(* clear() *)
clear(t) == ClearNoDrop(t)

\* Mutant: a capacity of 0 is rounded up to 1, so that new always allocates
new_always_allocates(cap, allocOk) ==
    LET r == FallibleWithCapacity(Max({cap, 1}), allocOk)
    IN IF r.ok THEN [res |-> "Ok", t |-> r.t] ELSE [res |-> "Err", t |-> r.t]

(* new(cap, layout, spec, alloc) *)
new(cap, allocOk) ==
    LET r == FallibleWithCapacity(cap, allocOk)
    IN IF r.ok THEN [res |-> "Ok", t |-> r.t] ELSE [res |-> "Err", t |-> r.t]

(* The number of control bytes ctrl(index) may address: buckets +           *)
(* Group::WIDTH.  The static group of the empty singleton holds             *)
(* Group::WIDTH bytes only.                                                 *)
NumCtrlBytes(t) == Buckets(t) + W
CtrlLen(t) == IF IsEmptySingleton(t) THEN W ELSE NumCtrlBytes(t)

(* The control bytes a group load at `pos` observes.  A byte past the end   *)
(* of the control array is whatever the memory behind it holds: junk[i] is  *)
(* the i-th byte behind the array.                                          *)
GroupLoadAt(t, pos, junk) ==
    [j \in 0..(W - 1) |->
        IF pos + j \in DOMAIN t.ctrl THEN t.ctrl[pos + j]
        ELSE junk[pos + j - CtrlLen(t) + 1]]

(* next_entry(index).  In a debug build ctrl(curr_idx) asserts              *)
(* curr_idx < buckets + Group::WIDTH before the load, and bucket() asserts  *)
(* on the index matched.                                                    *)
RECURSIVE next_entry_from(_, _, _)
next_entry_from(t, curr_idx, junk) ==
    IF debug /\ curr_idx >= NumCtrlBytes(t) THEN Panicked
    ELSE LET mask == MatchFull(GroupLoadAt(t, curr_idx, junk))
         IN IF AnyBitSet(mask)
            THEN LET matched_index == curr_idx + TrailingZeros(mask)
                 IN IF bucket(t, matched_index) = PanicAddr THEN Panicked
                    ELSE Some(<<matched_index, bucket(t, matched_index)>>)
            ELSE IF curr_idx + W >= Buckets(t) THEN None
            ELSE next_entry_from(t, curr_idx + W, junk)

next_entry(t, index, junk) == next_entry_from(t, index, junk)

(* The groups next_entry(index) loads before it returns or panics: one for  *)
(* each turn of its loop that passes the assertion of ctrl()                *)
RECURSIVE next_entry_loads(_, _, _)
next_entry_loads(t, curr_idx, junk) ==
    IF debug /\ curr_idx >= NumCtrlBytes(t) THEN 0
    ELSE IF AnyBitSet(MatchFull(GroupLoadAt(t, curr_idx, junk))) THEN 1
    ELSE IF curr_idx + W >= Buckets(t) THEN 1
    ELSE 1 + next_entry_loads(t, curr_idx + W, junk)

-----------------------------------------------------------------------------
(* RawMap (map.rs): the typed facade *)

\* Mutant: the value offset is not added, the key bytes are read as the value
RawMap_get_novoff(t, key) ==
    LET p == access(t, key)
    IN IF IsSome(p) THEN Some(t.data[Unwrap(p)].k) ELSE None

(* get(&key) *)
RawMap_get(t, key) ==
    LET p == access(t, key)
    IN IF IsSome(p) THEN Some(t.data[Unwrap(p)].v) ELSE None

\* Mutant: the value is written only when the table was changed by assign,
\* an insert of a present key keeps the old value
RawMap_insert_keep_old(t, key, value, allocOk) ==
    Once(assign(t, key, allocOk), LAMBDA a :
       IF a.res # "Ok" THEN [res |-> a.res, t |-> a.t]
       ELSE IF a.t.items = t.items THEN [res |-> "Ok", t |-> a.t]
       ELSE [res |-> "Ok", t |-> [a.t EXCEPT !.data[Unwrap(a.ptr)].v = value]])

(* insert(&key, value) *)
RawMap_insert(t, key, value, allocOk) ==
    Once(assign(t, key, allocOk), LAMBDA a :
       IF a.res # "Ok" THEN [res |-> a.res, t |-> a.t]
       ELSE [res |-> "Ok", t |-> [a.t EXCEPT !.data[Unwrap(a.ptr)].v = value]])

RawMap_delete(t, key) == delete(t, key)

RawMap_extend(t, other, allocOk) == extend(t, other, allocOk)

RawMap_clear(t) == clear(t)

RawMap_size(t) == len(t)


-----------------------------------------------------------------------------
(* The state machine: two tables, built with new(0, ..) as in test_map, and *)
(* the calls of RawTable2 / RawMap on them.  Table 1 is the map under test, *)
(* table 2 the `other` of extend.                                           *)

\* Bytes of a bucket whose control byte is not FULL are never read by any
\* operation (probing compares keys only where the tag matches, growth and
\* extend copy FULL buckets only), so the state keeps them as Uninit.
Scrub(t) ==
    [t EXCEPT !.data = [i \in DOMAIN t.data |->
        IF IsFull(t.ctrl[i]) THEN t.data[i] ELSE Uninit]]

NoRef == [k \in AllKeys |-> 0]

Call(op, t, res, hit, grew) ==
    [op |-> op, t |-> t, res |-> res, hit |-> hit, grew |-> grew]

\* A call on table 2 counts against MaxOtherOps
Budget(t) == t = 1 \/ nops < MaxOtherOps
Spend(t) == nops' = IF t = 2 THEN nops + 1 ELSE nops

\* probe_seq(hash) on a table of bucket mask `mask`
ProbeSeq(mask, h) ==
    [mask |-> mask, pos |-> h % (mask + 1), stride |-> 0, seen |-> <<h % (mask + 1)>>]

NoProbe == ProbeSeq(0, 0)

Init ==
    /\ W \in Widths
    /\ debug \in BOOLEAN
    /\ tbl = [t \in TableIds |-> new(0, TRUE).t]
    /\ ref = [t \in TableIds |-> NoRef]
    /\ last = Call("new", 1, "Ok", FALSE, FALSE)
    /\ nops = 0
    /\ probe = NoProbe

(* let table = RawTable2::new(cap, ..)?  replaces table t on success *)
New(t, cap, allocOk) ==
    \E r \in {new(cap, allocOk)} :
       /\ Budget(t)
       /\ tbl' = IF r.res = "Ok" THEN [tbl EXCEPT ![t] = r.t] ELSE tbl
       /\ ref' = IF r.res = "Ok" THEN [ref EXCEPT ![t] = NoRef] ELSE ref
       /\ last' = Call("new", t, r.res, FALSE, FALSE)
       /\ Spend(t)
       /\ UNCHANGED <<W, debug, probe>>

(* map.insert(&key, value) *)
Insert(t, k, v, allocOk) ==
    \E r \in {RawMap_insert(tbl[t], k, v, allocOk)} :
       /\ Budget(t)
       /\ tbl' = [tbl EXCEPT ![t] = Scrub(r.t)]
       /\ ref' = IF r.res = "Ok" THEN [ref EXCEPT ![t][k] = v] ELSE ref
       /\ last' = Call("insert", t, r.res, IsSome(find(tbl[t], k)),
                       1 > tbl[t].growth_left)
       /\ Spend(t)
       /\ UNCHANGED <<W, debug, probe>>

\* What the value bytes of a bucket may hold when assign hands them out
\* for a new key: the value of an entry erased from the bucket earlier, or
\* what the allocator left there
StaleVals == {0} \cup Vals

(* table.assign(key) called on its own: the caller does not write the       *)
(* value.  The bucket of a new key keeps the value bytes it had, which      *)
(* assign does not write.                                                   *)
Assign(t, k, stale, allocOk) ==
    \E r \in {assign(tbl[t], k, allocOk)} :
       /\ Budget(t)
       /\ tbl' = [tbl EXCEPT ![t] =
                    Scrub(IF r.res = "Ok" /\ find(tbl[t], k) = None
                          THEN [r.t EXCEPT !.data[Unwrap(r.ptr)].v = stale]
                          ELSE r.t)]
       /\ ref' = ref
       /\ last' = Call("assign", t, r.res, IsSome(find(tbl[t], k)),
                       1 > tbl[t].growth_left)
       /\ Spend(t)
       /\ UNCHANGED <<W, debug, probe>>

(* map.delete(&key) *)
Delete(t, k) ==
    /\ Budget(t)
    /\ tbl' = [tbl EXCEPT ![t] = Scrub(RawMap_delete(tbl[t], k))]
    /\ ref' = [ref EXCEPT ![t][k] = 0]
    /\ last' = Call("delete", t, "Ok", IsSome(find(tbl[t], k)), FALSE)
    /\ Spend(t)
    /\ UNCHANGED <<W, debug, probe>>

(* map.clear() *)
Clear(t) ==
    /\ Budget(t)
    /\ tbl' = [tbl EXCEPT ![t] = Scrub(RawMap_clear(tbl[t]))]
    /\ ref' = [ref EXCEPT ![t] = NoRef]
    /\ last' = Call("clear", t, "Ok", len(tbl[t]) > 0, FALSE)
    /\ Spend(t)
    /\ UNCHANGED <<W, debug, probe>>

(* map.extend(&other) *)
Extend(t, o, allocOk) ==
    \E r \in {RawMap_extend(tbl[t], tbl[o], allocOk)} :
       /\ Budget(t)
       /\ tbl' = [tbl EXCEPT ![t] = Scrub(r.t)]
       /\ ref' = IF r.res = "Ok"
                 THEN [ref EXCEPT ![t] = [k \in AllKeys |->
                          IF ref[o][k] # 0 THEN ref[o][k] ELSE ref[t][k]]]
                 ELSE ref
       /\ last' = Call("extend", t, r.res,
                       \E k \in AllKeys : ref[o][k] # 0 /\ ref[t][k] # 0,
                       len(tbl[o]) > tbl[t].growth_left)
       /\ Spend(t)
       /\ UNCHANGED <<W, debug, probe>>

(* Spec: every call on one table *)
Next ==
    \/ \E cap \in 0..MaxNewCap, allocOk \in BOOLEAN : New(1, cap, allocOk)
    \/ \E k \in Keys, v \in Vals, allocOk \in BOOLEAN : Insert(1, k, v, allocOk)
    \/ \E k \in Keys : Delete(1, k)
    \/ Clear(1)

Spec == Init /\ [][Next]_vars

(* SpecExt: two tables over fewer keys, table 1 extended by table 2 *)
NextExt ==
    \/ \E t \in TableIds, cap \in 0..MaxNewCap, allocOk \in BOOLEAN : New(t, cap, allocOk)
    \/ \E t \in TableIds, k \in KeysExt, v \in Vals, allocOk \in BOOLEAN :
          Insert(t, k, v, allocOk)
    \/ \E t \in TableIds, k \in KeysExt : Delete(t, k)
    \/ \E t \in TableIds : Clear(t)
    \/ \E allocOk \in BOOLEAN : Extend(1, 2, allocOk)

SpecExt == Init /\ [][NextExt]_vars

(* SpecIns: as the loop of test_map, inserts only, each key with a value    *)
(* of its own, starting from the table of capacity 0                        *)
NextIns ==
    \E k \in KeysIns, allocOk \in BOOLEAN : Insert(1, k, ValIns(k), allocOk)

SpecIns == Init /\ [][NextIns]_vars

(* SpecProbe: a build with groups of 4 control bytes and keys that collide, *)
(* so that probe sequences pass the first group and deletes leave           *)
(* tombstones; inserts, deletes and clears on one map                       *)
InitProbe == Init /\ W = 4

NextProbe ==
    \/ \E k \in KeysProbe, allocOk \in BOOLEAN : Insert(1, k, ValIns(k), allocOk)
    \/ \E k \in KeysProbe : Delete(1, k)
    \/ Clear(1)

SpecProbe == InitProbe /\ [][NextProbe]_vars

(* SpecGrow: table 1 takes inserts and deletes, table 2 a few inserts, and  *)
(* table 1 is extended by table 2: an extend brings several new keys        *)
NextGrow ==
    \/ \E k \in KeysGrow, allocOk \in BOOLEAN : Insert(1, k, ValIns(k), allocOk)
    \/ \E k \in KeysGrow : Delete(1, k)
    \/ \E k \in KeysGrow : Insert(2, k, ValIns(k), TRUE)
    \/ \E allocOk \in BOOLEAN : Extend(1, 2, allocOk)

SpecGrow == Init /\ [][NextGrow]_vars

(* SpecTomb: one map, Group::WIDTH 4, seven keys: enough to use up the      *)
(* headroom of a table of 8 buckets while it holds tombstones, and to       *)
(* rehash it in place.  The deletes are those of the first five keys (the   *)
(* colliding ones, whose deletes leave tombstones).                         *)
NextTomb ==
    \/ \E k \in KeysTomb : Insert(1, k, ValIns(k), TRUE)
    \/ \E k \in KeysProbe : Delete(1, k)

SpecTomb == InitProbe /\ [][NextTomb]_vars

(* SpecRaw: the calls of RawTable2 on one table, assign on its own among   *)
(* them, next to the inserts of the map                                     *)
NextRaw ==
    \/ \E k \in KeysRaw, stale \in StaleVals, allocOk \in BOOLEAN :
          Assign(1, k, stale, allocOk)
    \/ \E k \in KeysRaw, v \in Vals, allocOk \in BOOLEAN : Insert(1, k, v, allocOk)
    \/ \E k \in KeysRaw : Delete(1, k)
    \/ Clear(1)

SpecRaw == Init /\ [][NextRaw]_vars

(* SpecSeq: tables of 4 to 64 buckets, and the probe sequence of a lookup   *)
(* in them that no group ends, started from any hash and moved on group by  *)
(* group                                                                    *)

(* let mut probe_seq = self.probe_seq(hash) *)
ProbeStart(h) ==
    /\ probe' = ProbeSeq(tbl[1].mask, h)
    /\ UNCHANGED <<W, debug, tbl, ref, last, nops>>

(* probe_seq.move_next(bucket_mask).  A debug build asserts                 *)
(* stride <= bucket_mask before it moves and panics otherwise; a release    *)
(* build moves on without end (followed here up to MaxProbeLen positions).  *)
ProbeMoveNext ==
    /\ debug => probe.stride <= probe.mask
    /\ Len(probe.seen) < MaxProbeLen
    /\ probe' = [probe EXCEPT
                    !.stride = NextStride(probe.stride),
                    !.pos = NextPos(probe.mask, probe.pos, probe.stride),
                    !.seen = Append(probe.seen, NextPos(probe.mask, probe.pos, probe.stride))]
    /\ UNCHANGED <<W, debug, tbl, ref, last, nops>>

NextSeq ==
    \/ \E cap \in 0..MaxSeqCap : New(1, cap, TRUE)
    \/ \E h \in 0..MaxSeqHash : ProbeStart(h)
    \/ ProbeMoveNext

SpecSeq == Init /\ [][NextSeq]_vars

-----------------------------------------------------------------------------
(* Properties *)

\* The keys a table resolves
KeysOf(t) == {k \in AllKeys : IsSome(access(t, k))}

\* What the history says get(k) must return
Expected(t, k) == IF ref[t][k] = 0 THEN None ELSE Some(ref[t][k])

(* C1  Find-after-insert: after any sequence of calls, get(k) returns the   *)
(* value most recently inserted for k, and None for a key that was never    *)
(* inserted (or was deleted or cleared since).                              *)
C1_FindAfterInsert ==
    \A k \in Keys : RawMap_get(tbl[1], k) = Expected(1, k)

\* An insert that overwrote a present key while growing the table from 4 to
\* 8 buckets, another key still holding its first value, one never inserted
C1_Witness ==
    /\ last.op = "insert" /\ last.res = "Ok" /\ last.hit /\ last.grew
    /\ tbl[1].mask = 7 /\ tbl[1].items = 3
    /\ ref[1][2] = 2 /\ ref[1][3] = 1 /\ ref[1][4] = 0
    /\ RawMap_get(tbl[1], 2) = Some(2)

(* C2  Delete-then-absent: after delete(k), access(k) is None, and len() is *)
(* one less if k was present before the call, unchanged otherwise.          *)
C2_DeleteThenAbsent ==
    [][\A k \in Keys : (last'.op = "delete" /\ Delete(1, k)) =>
          /\ access(tbl'[1], k) = None
          /\ len(tbl'[1]) = len(tbl[1]) - (IF IsSome(access(tbl[1], k)) THEN 1 ELSE 0)]_vars

\* A delete of a present key that left a tombstone
C2_Witness ==
    /\ last.op = "delete" /\ last.hit
    /\ \E i \in 0..tbl[1].mask : tbl[1].ctrl[i] = DELETED


\* The FULL slots of a table that hold key k
SlotsOf(t, k) == {i \in 0..t.mask : IsFull(t.ctrl[i]) /\ t.data[i].k = k}

(* C3  Growth preserves all entries: inserting N distinct keys into the     *)
(* capacity-0 table gives size() = N, and at every point (so after every    *)
(* growth) each inserted key holds exactly one slot and resolves to its own *)
(* value, and no other key resolves.                                        *)
C3_GrowthPreservesEntries ==
    LET inserted == {k \in KeysIns : ref[1][k] # 0}
    IN /\ RawMap_size(tbl[1]) = Cardinality(inserted)
       /\ \A k \in KeysIns :
             IF k \in inserted
             THEN /\ Cardinality(SlotsOf(tbl[1], k)) = 1
                  /\ RawMap_get(tbl[1], k) = Some(ValIns(k))
             ELSE /\ SlotsOf(tbl[1], k) = {}
                  /\ RawMap_get(tbl[1], k) = None

\* All keys inserted, the last insert growing the table for the third time
\* (1 -> 4 -> 8 -> 16 buckets)
C3_Witness ==
    /\ last.op = "insert" /\ last.res = "Ok" /\ last.grew
    /\ tbl[1].mask = 15
    /\ RawMap_size(tbl[1]) = NumKeysIns
    /\ \A k \in KeysIns : RawMap_get(tbl[1], k) = Some(ValIns(k))

(* C4  Extend is a union with overwrite: after a.extend(b) every key of b   *)
(* resolves in a to b's value, a key only in a keeps its value, a.len() is  *)
(* the number of keys of a or b, and b is unchanged; clearing one table     *)
(* leaves the other unchanged.                                              *)
C4_ExtendIsUnion ==
    [][/\ \A allocOk \in BOOLEAN :
             (last'.op = "extend" /\ last'.res = "Ok" /\ Extend(1, 2, allocOk)) =>
                /\ \A k \in KeysExt :
                      RawMap_get(tbl'[1], k) =
                         IF IsSome(RawMap_get(tbl[2], k)) THEN RawMap_get(tbl[2], k)
                         ELSE RawMap_get(tbl[1], k)
                /\ len(tbl'[1]) = Cardinality(KeysOf(tbl[1]) \cup KeysOf(tbl[2]))
                /\ tbl'[2] = tbl[2]
       /\ \A t \in TableIds :
             (last'.op = "clear" /\ Clear(t)) => tbl'[3 - t] = tbl[3 - t]]_vars

\* An extend that grew table 1, overwrote a key of it with another value
\* and added a new key, a third key of table 1 being left alone
C4_Witness ==
    /\ last.op = "extend" /\ last.res = "Ok" /\ last.hit /\ last.grew
    /\ len(tbl[2]) = 2 /\ len(tbl[1]) = 3
    /\ \E k \in KeysExt : RawMap_get(tbl[1], k) # None /\ RawMap_get(tbl[2], k) = None

(* C5  Idempotent overwrite: an insert that returns, of a key already       *)
(* present with another value, leaves size() unchanged and get of the key   *)
(* returns the new value; also when growth_left is 0 before the insert.     *)
C5_IdempotentOverwrite ==
    [][\A k \in Keys, v \in Vals, allocOk \in BOOLEAN :
          (/\ last'.op = "insert" /\ last'.res = "Ok"
           /\ IsSome(RawMap_get(tbl[1], k))
           /\ RawMap_get(tbl[1], k) # Some(v)
           /\ Insert(1, k, v, allocOk)) =>
             /\ RawMap_size(tbl'[1]) = RawMap_size(tbl[1])
             /\ RawMap_get(tbl'[1], k) = Some(v)]_vars

\* An insert over a present key made with growth_left = 0: the table grew
\* and the key holds the second value
C5_Witness ==
    /\ last.op = "insert" /\ last.res = "Ok" /\ last.hit /\ last.grew
    /\ tbl[1].items = 3
    /\ \E k \in Keys : RawMap_get(tbl[1], k) = Some(2)

\* What a byte read behind the control array may hold
JunkBytes == {EMPTY, DELETED, HashH2(1)}

(* The memory behind the control array, as far as a load of next_entry      *)
(* reaches: W + 1 bytes.  next_entry reads of a load the position of its    *)
(* first FULL byte only, so the contents taken are those with no FULL byte  *)
(* and those with one FULL byte, at each position.                          *)
JunkTails ==
    {[i \in 1..(W + 1) |-> IF i = n THEN HashH2(1) ELSE fill] :
        n \in 0..(W + 1), fill \in JunkBytes \ {HashH2(1)}}

(* The forward scan of an iterator: next_entry(0), then next_entry of the   *)
(* previous index + 1, until None.  The scan is cut at the first index that *)
(* is not a bucket of the table, where the bucket address is dangling, and  *)
(* by a call that panics (PanicAddr stands for it in the scan).             *)
RECURSIVE ScanFrom(_, _, _)
ScanFrom(t, index, junk) ==
    LET r == next_entry(t, index, junk)
    IN IF r = None THEN <<>>
       ELSE IF r = Panicked THEN <<PanicAddr>>
       ELSE LET matched_index == Unwrap(r)[1]
            IN IF matched_index >= Buckets(t) THEN <<matched_index>>
               ELSE <<matched_index>> \o ScanFrom(t, matched_index + 1, junk)

Scan(t, junk) == ScanFrom(t, 0, junk)

(* C6  Iteration visits exactly the live set: the scan from index 0 yields  *)
(* each FULL slot index exactly once, in ascending order, and no other      *)
(* index, so that the keys visited are the keys of the insert/delete        *)
(* history.  The code violates this statement.                              *)
C6_ScanVisitsLiveSet ==
    \A junk \in JunkTails :
       LET scan == Scan(tbl[1], junk)
       IN /\ scan = FullBucketsIndices(tbl[1])
          /\ \A n \in DOMAIN scan : scan[n] \in 0..tbl[1].mask
          /\ {tbl[1].data[scan[n]].k : n \in DOMAIN scan} = {k \in Keys : ref[1][k] # 0}

(* C7  Growth fails atomically: when the allocator refuses the allocation   *)
(* of a growth reached from assign (insert) or extend, the table is left    *)
(* as it was: same mask, items, growth_left, control bytes and entries,     *)
(* and every key resolves as before.                                        *)
C7_GrowthFailsAtomically ==
    [][\A t \in TableIds :
          /\ \A k \in KeysExt, v \in Vals :
                (/\ last'.op = "insert" /\ last'.t = t /\ last'.res # "Ok"
                 /\ Insert(t, k, v, FALSE)) =>
                   /\ tbl' = tbl
                   /\ \A j \in KeysExt : RawMap_get(tbl'[t], j) = Expected(t, j)
          /\ (t = 1 /\ last'.res # "Ok" /\ last'.op = "extend" /\ Extend(1, 2, FALSE)) =>
                   /\ tbl' = tbl
                   /\ \A j \in KeysExt : RawMap_get(tbl'[1], j) = Expected(1, j)]_vars

\* An extend of a table that holds keys was refused its allocation
C7_Witness ==
    /\ last.op = "extend" /\ last.res # "Ok" /\ last.grew
    /\ len(tbl[1]) >= 2
    /\ \E k \in KeysExt : RawMap_get(tbl[1], k) = Some(2)

(* C8  Allocation failure is surfaced as a typed failure result, not a      *)
(* panic, on every path that can allocate: new, and the growth reached      *)
(* through assign, insert and extend.  The code violates this statement.    *)
C8_AllocFailureIsTyped == last.res \in {"Ok", "Err"}

(* C9  Clear resets count, not capacity: after clear() on a table with      *)
(* buckets of its own, len() = 0, every key is absent, the bucket count is  *)
(* unchanged, growth_left is that of a freshly allocated table of this      *)
(* size, and the next insert of a key completes without a growth, even      *)
(* with an allocator that would refuse.                                     *)
C9_ClearKeepsCapacity ==
    [][/\ (last'.op = "clear" /\ ~IsEmptySingleton(tbl[1]) /\ Clear(1)) =>
             /\ len(tbl'[1]) = 0
             /\ \A k \in Keys : RawMap_get(tbl'[1], k) = None
             /\ Buckets(tbl'[1]) = Buckets(tbl[1])
             /\ tbl'[1].growth_left = NewWithBuckets(Buckets(tbl[1])).growth_left
             /\ tbl'[1].growth_left = BucketMaskToCapacity(tbl[1].mask)
             /\ \A k \in Keys, v \in Vals :
                   LET r == RawMap_insert(tbl'[1], k, v, FALSE)
                   IN /\ r.res = "Ok"
                      /\ Buckets(r.t) = Buckets(tbl[1])
                      /\ RawMap_get(r.t, k) = Some(v)
       /\ \A k \in Keys, v \in Vals, allocOk \in BOOLEAN :
             (/\ last.op = "clear"
              /\ ~IsEmptySingleton(tbl[1])
              /\ last'.op = "insert"
              /\ Insert(1, k, v, allocOk)) =>
                /\ ~last'.grew /\ last'.res = "Ok"
                /\ Buckets(tbl'[1]) = Buckets(tbl[1])]_vars

\* A table that had grown to 8 buckets and held keys has just been cleared
C9_Witness ==
    /\ last.op = "clear" /\ last.hit
    /\ tbl[1].mask = 7
    /\ len(tbl[1]) = 0 /\ tbl[1].growth_left = 7

(* C10  A table constructed with capacity 0 is legal: new(0) succeeds       *)
(* without asking the allocator (so also when it would refuse), len() is 0, *)
(* access returns None, delete and clear change nothing, next_entry(0)      *)
(* returns None, growth_left is 0 so that the first insert has to grow,     *)
(* and after that insert the key is found.                                  *)
C10_CapacityZeroIsLegal ==
    [][/\ \A allocOk \in BOOLEAN :
             New(1, 0, allocOk) =>
                /\ last'.res = "Ok"
                /\ new(0, allocOk).t = NewSingleton
                /\ IsEmptySingleton(tbl'[1])
       /\ IsEmptySingleton(tbl'[1]) =>
             /\ len(tbl'[1]) = 0
             /\ tbl'[1].growth_left = 0
             /\ \A k \in Keys :
                   /\ access(tbl'[1], k) = None
                   /\ delete(tbl'[1], k) = tbl'[1]
             /\ clear(tbl'[1]) = tbl'[1]
             /\ \A junk \in JunkTails : next_entry(tbl'[1], 0, junk) = None
             /\ ~check_growth(tbl'[1], 1, FALSE).ok
       /\ \A k \in Keys, v \in Vals, allocOk \in BOOLEAN :
             (IsEmptySingleton(tbl[1]) /\ Insert(1, k, v, allocOk)) =>
                /\ last'.grew
                /\ allocOk => /\ last'.res = "Ok"
                              /\ ~IsEmptySingleton(tbl'[1])
                              /\ len(tbl'[1]) = 1
                              /\ RawMap_get(tbl'[1], k) = Some(v)]_vars

\* The first insert into a table made by new(0) has grown it to 4 buckets
C10_Witness ==
    /\ last.op = "insert" /\ last.res = "Ok" /\ last.grew /\ ~last.hit
    /\ len(tbl[1]) = 1 /\ Buckets(tbl[1]) = 4

(* C11  Overwrite is a no-op on table accounting: an insert (assign) of a   *)
(* key that is present leaves items, growth_left, the bucket count and the  *)
(* slot of every stored entry unchanged, also when growth_left is 0 before  *)
(* the call.  The code violates this statement.                             *)
C11_OverwriteKeepsAccounting ==
    [][\A k \in KeysRaw, allocOk \in BOOLEAN :
          (/\ last'.op \in {"assign", "insert"}
           /\ IsSome(find(tbl[1], k))
           /\ \/ \E stale \in StaleVals : Assign(1, k, stale, allocOk)
              \/ \E v \in Vals : Insert(1, k, v, allocOk)) =>
             /\ tbl'[1].items = tbl[1].items
             /\ tbl'[1].growth_left = tbl[1].growth_left
             /\ Buckets(tbl'[1]) = Buckets(tbl[1])
             /\ \A j \in KeysRaw : find(tbl'[1], j) = find(tbl[1], j)]_vars

\* The groups a probe for hash h visits, from `pos` on, up to the first
\* group that holds an EMPTY byte: TRUE when slot i lies in one of them
RECURSIVE ProbeReaches(_, _, _, _)
ProbeReaches(t, i, pos, stride) ==
    IF i \in {Masked(t, pos + j) : j \in 0..(W - 1)} THEN TRUE
    ELSE IF AnyBitSet(MatchEmpty(GroupLoad(t, pos))) THEN FALSE
    ELSE IF stride > t.mask THEN FALSE
    ELSE ProbeReaches(t, i, NextPos(t.mask, pos, stride), NextStride(stride))

(* C12  EMPTY proves absence: for every FULL slot holding key k, no group   *)
(* that precedes the slot's group in the probe sequence of hash(k) holds    *)
(* an EMPTY byte; so the lookup, which stops at the first group with an     *)
(* EMPTY byte, finds every present key in its slot, and get agrees with     *)
(* the history, whatever erase chose between DELETED and EMPTY.             *)
C12_EmptyProvesAbsence ==
    /\ \A i \in 0..tbl[1].mask :
          IsFull(tbl[1].ctrl[i]) =>
             LET k == tbl[1].data[i].k
             IN /\ ProbeReaches(tbl[1], i, Masked(tbl[1], hash(k).h1), 0)
                /\ find(tbl[1], k) = Some(i)
    /\ \A k \in KeysProbe : RawMap_get(tbl[1], k) = Expected(1, k)

\* A key sits in the second group of its probe sequence, and the first
\* group, which is without EMPTY bytes, holds a tombstone
C12_Witness ==
    \E k \in KeysProbe :
       LET pos == Masked(tbl[1], hash(k).h1)
           g == GroupLoad(tbl[1], pos)
       IN /\ IsSome(find(tbl[1], k))
          /\ Unwrap(find(tbl[1], k)) \notin {Masked(tbl[1], pos + j) : j \in 0..(W - 1)}
          /\ MatchEmpty(g) = {}
          /\ MatchByte(g, DELETED) # {}

\* The smallest FULL slot index i with index <= i < bucket count, with the
\* address of its bucket, or None
NextFullAfter(t, index) ==
    LET full == {i \in index..t.mask : IsFull(t.ctrl[i])}
    IN IF full = {} THEN None ELSE Some(<<Min(full), bucket(t, Min(full))>>)

(* C13  next_entry(index), for every index in [0, bucket count], aligned to *)
(* a group or not, returns the smallest FULL slot index i with              *)
(* index <= i < bucket count and the address of its bucket, None when       *)
(* there is none, and never an index >= bucket count.  The code violates    *)
(* this statement.                                                          *)
C13_NextEntryInBounds ==
    \A index \in 0..Buckets(tbl[1]), junk \in JunkTails :
       LET r == next_entry(tbl[1], index, junk)
       IN /\ r = NextFullAfter(tbl[1], index)
          /\ IsSome(r) => Unwrap(r)[1] < Buckets(tbl[1])

\* The insertions of extend's loop, one after the other: TRUE when each
\* insertion of a new key into an EMPTY slot finds growth_left >= 1
RECURSIVE InsertsWithHeadroom(_, _, _)
InsertsWithHeadroom(t, other, idxs) ==
    IF idxs = <<>> THEN TRUE
    ELSE LET key == other.data[bucket(other, Head(idxs))].k
             r == FindOrFindInsertSlotInner(t, hash(key), key)
         IN /\ (r.found \/ ~SpecialIsEmpty(t.ctrl[r.index]) \/ t.growth_left >= 1)
            /\ Once(ExtendLoop(t, other, <<Head(idxs)>>),
                    LAMBDA t2 : InsertsWithHeadroom(t2, other, Tail(idxs)))

(* C14  growth_left never underflows: check_growth(additional) leaves       *)
(* growth_left >= additional when it succeeds; the insertion of assign, and *)
(* every insertion of extend after its single growth check for other.len(), *)
(* finds growth_left >= 1 when it takes an EMPTY slot, and growth_left is   *)
(* never below 0.                                                           *)
C14_GrowthLeftNeverUnderflows ==
    [][/\ \A t \in TableIds : tbl'[t].growth_left >= 0
       /\ \A t \in TableIds, k \in KeysGrow, allocOk \in BOOLEAN :
             (/\ last'.op = "insert" /\ last'.t = t /\ last'.res = "Ok"
              /\ Insert(t, k, ValIns(k), allocOk)) =>
                LET g == check_growth(tbl[t], 1, allocOk)
                    r == FindOrFindInsertSlotInner(g.t, hash(k), k)
                IN /\ g.ok /\ g.t.growth_left >= 1
                   /\ tbl'[t].growth_left =
                         g.t.growth_left -
                            (IF ~r.found /\ SpecialIsEmpty(g.t.ctrl[r.index]) THEN 1 ELSE 0)
       /\ \A allocOk \in BOOLEAN :
             (last'.op = "extend" /\ last'.res = "Ok" /\ Extend(1, 2, allocOk)) =>
                LET g == check_growth(tbl[1], len(tbl[2]), allocOk)
                IN /\ g.ok /\ g.t.growth_left >= len(tbl[2])
                   /\ InsertsWithHeadroom(g.t, tbl[2], FullBucketsIndices(tbl[2]))
                   /\ Buckets(tbl'[1]) = Buckets(g.t)
                   /\ tbl'[1].growth_left >= g.t.growth_left - len(tbl[2])]_vars

\* An extend that brought two new keys into a table that held two and had
\* headroom for one: the growth check made room for both
C14_Witness ==
    /\ last.op = "extend" /\ last.res = "Ok" /\ last.grew /\ ~last.hit
    /\ len(tbl[2]) = 2 /\ len(tbl[1]) = 4
    /\ tbl[1].growth_left = 3

(* C15  Tombstone reuse does not consume growth headroom: when a new key   *)
(* is inserted (find_or_insert, after the growth check of assign) into a    *)
(* slot whose control byte was DELETED, items increases by 1 and            *)
(* growth_left is unchanged; when the byte was EMPTY, items increases by 1  *)
(* and growth_left decreases by exactly 1.                                  *)
C15_TombstoneReuseKeepsHeadroom ==
    [][\A k \in KeysProbe, allocOk \in BOOLEAN :
          (/\ last'.op = "insert" /\ last'.res = "Ok"
           /\ find(tbl[1], k) = None
           /\ Insert(1, k, ValIns(k), allocOk)) =>
             LET g == check_growth(tbl[1], 1, allocOk).t
                 r == FindOrFindInsertSlotInner(g, hash(k), k)
                 old_ctrl == g.ctrl[r.index]
             IN /\ ~r.found
                /\ old_ctrl \in {EMPTY, DELETED}
                /\ find(tbl'[1], k) = Some(r.index)
                /\ tbl'[1].items = g.items + 1
                /\ old_ctrl = DELETED => tbl'[1].growth_left = g.growth_left
                /\ old_ctrl = EMPTY => tbl'[1].growth_left = g.growth_left - 1
                /\ ~last'.grew => g = tbl[1]]_vars

\* A table with headroom in which the insert slot of an absent key is a
\* tombstone, and what the insert of that key makes of it
C15_Witness ==
    \E k \in KeysProbe :
       LET r == FindOrFindInsertSlotInner(tbl[1], hash(k), k)
           a == RawMap_insert(tbl[1], k, ValIns(k), FALSE)
       IN /\ tbl[1].growth_left >= 1
          /\ ~r.found
          /\ tbl[1].ctrl[r.index] = DELETED
          /\ a.res = "Ok"
          /\ a.t.ctrl[r.index] = hash(k).h2
          /\ a.t.items = tbl[1].items + 1
          /\ a.t.growth_left = tbl[1].growth_left

\* The slots of the table whose control byte is FULL
FullSlots(t) == {i \in 0..t.mask : IsFull(t.ctrl[i])}

(* C16  items is the number of FULL control bytes and never exceeds the     *)
(* capacity: len() is the count of slots whose control byte is FULL,        *)
(* tombstones and EMPTY slots not counted, and it is at most the capacity   *)
(* of the table (bucket_mask_to_capacity of its mask).                      *)
C16_ItemsCountFullSlots ==
    /\ len(tbl[1]) = Cardinality(FullSlots(tbl[1]))
    /\ RawMap_size(tbl[1]) = Cardinality({k \in KeysProbe : ref[1][k] # 0})
    /\ len(tbl[1]) <= BucketMaskToCapacity(tbl[1].mask)
    /\ len(tbl[1]) <= Buckets(tbl[1])

\* A delete has just left a tombstone next to entries that remain
C16_Witness ==
    /\ last.op = "delete" /\ last.hit
    /\ len(tbl[1]) >= 2
    /\ Cardinality({i \in 0..tbl[1].mask : tbl[1].ctrl[i] = DELETED}) >= 2

\* The number of group positions of a table: a table smaller than a group
\* is probed at one position
NumGroups(mask) == IF mask + 1 < W THEN 1 ELSE (mask + 1) \div W

(* C17  Probe-sequence coverage: on a table whose bucket count is a power   *)
(* of two, the probe sequence pos_0 = hash & mask,                          *)
(* pos_(i+1) = (pos_i + (i+1) * Group::WIDTH) & mask visits every group     *)
(* position exactly once before a position repeats, for every hash.         *)
C17_ProbeSeqCoversGroups ==
    LET seen == probe.seen
        n == Len(seen)
        buckets == probe.mask + 1
        groups == NumGroups(probe.mask)
        first == Min({n, groups})
    IN /\ buckets \in {1, 4, 8, 16, 32, 64, 128}
       /\ debug => n <= groups + 1
       /\ \A i \in 1..n : seen[i] = (seen[1] + W * (((i - 1) * i) \div 2)) % buckets
       /\ \A i, j \in 1..first : i # j => seen[i] # seen[j]
       /\ n >= groups =>
             {seen[i] : i \in 1..groups} =
                {(seen[1] + W * g) % buckets : g \in 0..(groups - 1)}
       /\ \A i \in (groups + 1)..n : \E j \in 1..groups : seen[i] = seen[j]

\* A probe that started at an unaligned position of a table of 64 buckets
\* has visited all its 16 group positions
C17_Witness ==
    /\ W = 4 /\ probe.mask = 63
    /\ probe.seen[1] % W # 0
    /\ Len(probe.seen) = 17
    /\ probe.seen[17] = probe.seen[16]

(* C18  Probing always terminates: in every reachable state, tombstones    *)
(* and growth_left = 0 included, a control byte of the logical slot range   *)
(* is EMPTY, so the lookup of access/delete and the slot search of          *)
(* assign/extend stop, for present and absent keys, before the probe        *)
(* sequence has passed every group once; next_entry(index) returns after    *)
(* at most one load for each group of the table, for every index.           *)
C18_ProbingTerminates ==
    LET t == tbl[1]
    IN /\ \E i \in 0..t.mask : t.ctrl[i] = EMPTY
       /\ \A k \in KeysTomb :
             /\ FindInner(t, hash(k), k) \notin {Diverges, PastEnd}
             /\ find(t, k) \in {None} \cup {Some(i) : i \in 0..t.mask}
             /\ FindOrFindInsertSlotInner(t, hash(k), k).index \in 0..t.mask
       /\ \A index \in 0..(Buckets(t) + W), junk \in JunkTails :
             next_entry_loads(t, index, junk) <= NumGroups(t.mask)

\* A table of two groups without headroom and with a tombstone; the lookup
\* of an absent key passes a first group that has no EMPTY byte
C18_Witness ==
    LET t == tbl[1]
    IN /\ W = 4 /\ t.mask = 7
       /\ t.growth_left = 0
       /\ \E i \in 0..t.mask : t.ctrl[i] = DELETED
       /\ \E k \in KeysTomb :
             /\ find(t, k) = None
             /\ MatchEmpty(GroupLoad(t, Masked(t, hash(k).h1))) = {}

(* C19  Key uniqueness: in every reachable state no two FULL slots hold    *)
(* equal keys; and the slot search of an insert of a present key yields     *)
(* the key's slot, also when a tombstone precedes it in the probe           *)
(* sequence, so that the insert creates no second entry.                    *)
C19_KeysAreUnique ==
    LET t == tbl[1]
    IN /\ \A i, j \in FullSlots(t) : i # j => ~equals(t.data[i].k, t.data[j].k)
       /\ \A k \in KeysProbe : Cardinality(SlotsOf(t, k)) <= 1
       /\ \A k \in KeysProbe : \A i \in SlotsOf(t, k) :
             /\ FindOrFindInsertSlotInner(t, hash(k), k) = [found |-> TRUE, index |-> i]
             /\ find_or_insert(t, k) = [t |-> t, index |-> i]

\* An insert of a present key has just returned; the table holds a key in
\* the second group of its probe sequence while the first group has a
\* tombstone and no EMPTY byte, and an insert of that key leaves the table
\* with the entries it has
C19_Witness ==
    /\ last.op = "insert" /\ last.res = "Ok" /\ last.hit /\ ~last.grew
    /\ \E k \in KeysProbe :
          LET t == tbl[1]
              pos == Masked(t, hash(k).h1)
              g == GroupLoad(t, pos)
              a == RawMap_insert(t, k, ValIns(k), FALSE)
          IN /\ SlotsOf(t, k) # {}
             /\ SlotsOf(t, k) \cap {Masked(t, pos + j) : j \in 0..(W - 1)} = {}
             /\ MatchEmpty(g) = {}
             /\ MatchByte(g, DELETED) # {}
             /\ t.growth_left >= 1
             /\ a.res = "Ok"
             /\ a.t.items = t.items
             /\ a.t.ctrl = t.ctrl

(* C20  Delete affects only its key: for keys k # j, delete(k) leaves the  *)
(* result of access(j) as it was, a present j present at the same bucket    *)
(* with the same value, an absent j absent, also when j collided with k     *)
(* and sits after k in the probe sequence; and it leaves the bucket count   *)
(* and the capacity as they were.                                           *)
C20_DeleteFrame ==
    [][\A k \in KeysProbe : (last'.op = "delete" /\ Delete(1, k)) =>
          /\ Buckets(tbl'[1]) = Buckets(tbl[1])
          /\ BucketMaskToCapacity(tbl'[1].mask) = BucketMaskToCapacity(tbl[1].mask)
          /\ \A j \in KeysProbe \ {k} :
                /\ access(tbl'[1], j) = access(tbl[1], j)
                /\ RawMap_get(tbl'[1], j) = RawMap_get(tbl[1], j)
                /\ RawMap_get(tbl'[1], j) = Expected(1, j)]_vars

\* A delete of a present key has just returned and the table holds a
\* tombstone in a group without EMPTY bytes; a key that starts its probe
\* at that group sits in the next group and still has its value
C20_Witness ==
    /\ last.op = "delete" /\ last.hit
    /\ \E j \in KeysProbe :
          LET t == tbl[1]
              pos == Masked(t, hash(j).h1)
              g == GroupLoad(t, pos)
          IN /\ SlotsOf(t, j) # {}
             /\ SlotsOf(t, j) \cap {Masked(t, pos + n) : n \in 0..(W - 1)} = {}
             /\ MatchEmpty(g) = {}
             /\ MatchByte(g, DELETED) # {}
             /\ RawMap_get(t, j) = Some(ValIns(j))

=============================================================================
